---- MODULE Spec2Model ----
(***************************************************************************)
(* Voice-command dispatch loops of stagehand-voicebrowser:                 *)
(*   - the push-to-talk loop   (index.ts, startNodeVoiceLoop)              *)
(*   - the streaming loop      (test.js, startPythonVoiceLoop)             *)
(*   - the action cache        (index.ts, simpleCache/readCache/           *)
(*                              actWithCache)                              *)
(* Text values (transcripts, classifier replies, instructions) are         *)
(* sequences of one-character strings, so that toLowerCase, trim and the   *)
(* regular expressions of the source are computed character by character.  *)
(***************************************************************************)
EXTENDS Integers, Sequences, FiniteSets, TLC

(***************************************************************************)
(* JavaScript string primitives used by the source                         *)
(***************************************************************************)
UpperCase ==
    << "A","B","C","D","E","F","G","H","I","J","K","L","M",
       "N","O","P","Q","R","S","T","U","V","W","X","Y","Z" >>

LowerCase ==
    << "a","b","c","d","e","f","g","h","i","j","k","l","m",
       "n","o","p","q","r","s","t","u","v","w","x","y","z" >>

WhiteSpace == {" ", "\t", "\n"}

toLowerChar(c) ==
    IF \E i \in DOMAIN UpperCase : UpperCase[i] = c
    THEN LowerCase[CHOOSE i \in DOMAIN UpperCase : UpperCase[i] = c]
    ELSE c

\* String.prototype.toLowerCase
toLowerCase(s) == [i \in 1..Len(s) |-> toLowerChar(s[i])]

\* s.slice(i-1): the characters of s from position i (1-based) on
From(s, i) == IF i > Len(s) THEN << >> ELSE SubSeq(s, i, Len(s))

\* s.startsWith(p) at position i (1-based)
MatchAt(s, i, p) ==
    /\ i >= 1
    /\ i + Len(p) - 1 <= Len(s)
    /\ \A k \in 1..Len(p) : s[i + k - 1] = p[k]

\* s.indexOf(p, i-1) + 1, or 0 when p does not occur at or after position i
IndexFrom(s, i, p) ==
    IF \E j \in i..Len(s) : MatchAt(s, j, p)
    THEN CHOOSE j \in i..Len(s) :
            /\ MatchAt(s, j, p)
            /\ \A k \in i..(j - 1) : ~MatchAt(s, k, p)
    ELSE 0

\* String.prototype.trim
trim(s) ==
    IF \A i \in 1..Len(s) : s[i] \in WhiteSpace
    THEN << >>
    ELSE LET a == CHOOSE i \in 1..Len(s) :
                     /\ s[i] \notin WhiteSpace
                     /\ \A k \in 1..(i - 1) : s[k] \in WhiteSpace
             b == CHOOSE i \in 1..Len(s) :
                     /\ s[i] \notin WhiteSpace
                     /\ \A k \in (i + 1)..Len(s) : s[k] \in WhiteSpace
         IN  SubSeq(s, a, b)

\* Array.prototype.includes on a list of strings
includes(list, s) == \E i \in DOMAIN list : list[i] = s

(***************************************************************************)
(* JSON.parse, as far as classifyCommand reads its result: whether the     *)
(* text parses, and the value of the top-level "code" member.              *)
(* A parsed value is summarised as                                         *)
(*   [t |-> "str", s |-> chars]    a string without escape sequences       *)
(*   [t |-> "obj", code |-> v]     an object, v its last "code" member     *)
(*   [t |-> "other"]               anything else (number, array, literal,  *)
(*                                 string with escapes, no such member)    *)
(***************************************************************************)
Digits == {"0","1","2","3","4","5","6","7","8","9"}

JsonFail == [ok |-> FALSE, next |-> 0, val |-> [t |-> "other"]]

JsonOk(n, v) == [ok |-> TRUE, next |-> n, val |-> v]

RECURSIVE SkipWs(_, _)
SkipWs(s, i) ==
    IF i <= Len(s) /\ s[i] \in WhiteSpace THEN SkipWs(s, i + 1) ELSE i

\* position of the quote closing a string whose first character is at j; 0 if none
RECURSIVE StringEnd(_, _)
StringEnd(s, j) ==
    IF j > Len(s) THEN 0
    ELSE IF s[j] = "\"" THEN j
    ELSE IF s[j] \in {"\n", "\t"} THEN 0
    ELSE IF s[j] = "\\" THEN StringEnd(s, j + 2)
    ELSE StringEnd(s, j + 1)

ParseString(s, i) ==
    LET e == StringEnd(s, i + 1)
    IN  IF e = 0 THEN JsonFail
        ELSE LET body == SubSeq(s, i + 1, e - 1)
             IN  IF \E k \in DOMAIN body : body[k] = "\\"
                 THEN JsonOk(e + 1, [t |-> "other"])
                 ELSE JsonOk(e + 1, [t |-> "str", s |-> body])

RECURSIVE DigitsEnd(_, _)
DigitsEnd(s, j) ==
    IF j <= Len(s) /\ s[j] \in Digits THEN DigitsEnd(s, j + 1) ELSE j

\* -? (0 | [1-9][0-9]*) (\.[0-9]+)?
ParseNumber(s, i) ==
    LET a == IF s[i] = "-" THEN i + 1 ELSE i
        b == DigitsEnd(s, a)
    IN  IF b = a THEN JsonFail
        ELSE IF s[a] = "0" /\ b > a + 1 THEN JsonFail
        ELSE IF b <= Len(s) /\ s[b] = "."
             THEN LET c == DigitsEnd(s, b + 1)
                  IN  IF c = b + 1 THEN JsonFail ELSE JsonOk(c, [t |-> "other"])
             ELSE JsonOk(b, [t |-> "other"])

Literals == << <<"t","r","u","e">>, <<"f","a","l","s","e">>, <<"n","u","l","l">> >>

ParseLiteral(s, i) ==
    IF \E k \in DOMAIN Literals : MatchAt(s, i, Literals[k])
    THEN LET k == CHOOSE k \in DOMAIN Literals : MatchAt(s, i, Literals[k])
         IN  JsonOk(i + Len(Literals[k]), [t |-> "other"])
    ELSE JsonFail

RECURSIVE ParseValue(_, _), ParseMembers(_, _, _), ParseElements(_, _)

\* a value starting at position i (no leading white space)
ParseValue(s, i) ==
    IF i > Len(s) THEN JsonFail
    ELSE IF s[i] = "\"" THEN ParseString(s, i)
    ELSE IF s[i] = "{" THEN
        LET j == SkipWs(s, i + 1)
        IN  IF j <= Len(s) /\ s[j] = "}"
            THEN JsonOk(j + 1, [t |-> "obj", code |-> [t |-> "other"]])
            ELSE ParseMembers(s, j, [t |-> "other"])
    ELSE IF s[i] = "[" THEN
        LET j == SkipWs(s, i + 1)
        IN  IF j <= Len(s) /\ s[j] = "]"
            THEN JsonOk(j + 1, [t |-> "other"])
            ELSE ParseElements(s, j)
    ELSE IF s[i] = "-" \/ s[i] \in Digits THEN ParseNumber(s, i)
    ELSE ParseLiteral(s, i)

\* "key" : value (, "key" : value)* } with the first key at position i;
\* code is the value of the last "code" member seen so far
ParseMembers(s, i, code) ==
    IF i > Len(s) \/ s[i] # "\"" THEN JsonFail
    ELSE LET k == ParseString(s, i)
         IN  IF ~k.ok THEN JsonFail
             ELSE LET c == SkipWs(s, k.next)
                  IN  IF c > Len(s) \/ s[c] # ":" THEN JsonFail
                      ELSE LET v == ParseValue(s, SkipWs(s, c + 1))
                           IN  IF ~v.ok THEN JsonFail
                               ELSE LET code2 == IF k.val = [t |-> "str", s |-> <<"c","o","d","e">>]
                                                 THEN v.val ELSE code
                                        d == SkipWs(s, v.next)
                                    IN  IF d > Len(s) THEN JsonFail
                                        ELSE IF s[d] = "}"
                                             THEN JsonOk(d + 1, [t |-> "obj", code |-> code2])
                                        ELSE IF s[d] = ","
                                             THEN ParseMembers(s, SkipWs(s, d + 1), code2)
                                        ELSE JsonFail

\* value (, value)* ] with the first value at position i
ParseElements(s, i) ==
    LET v == ParseValue(s, i)
    IN  IF ~v.ok THEN JsonFail
        ELSE LET d == SkipWs(s, v.next)
             IN  IF d > Len(s) THEN JsonFail
                 ELSE IF s[d] = "]" THEN JsonOk(d + 1, [t |-> "other"])
                 ELSE IF s[d] = "," THEN ParseElements(s, SkipWs(s, d + 1))
                 ELSE JsonFail

\* JSON.parse(s): ok = FALSE when it throws a SyntaxError
JSONparse(s) ==
    LET v == ParseValue(s, SkipWs(s, 1))
    IN  IF ~v.ok THEN JsonFail
        ELSE IF SkipWs(s, v.next) <= Len(s) THEN JsonFail
        ELSE v

(***************************************************************************)
(* classifyCommand (index.ts)                                              *)
(*                                                                         *)
(* A backend outcome is one of                                             *)
(*   [kind |-> "neterr"]             fetch rejects                         *)
(*   [kind |-> "badbody"]            response.json() rejects               *)
(*   [kind |-> "data", content |-> c]  a JSON body, c the value of         *)
(*                                   data?.choices?.[0]?.message?.content: *)
(*       [t |-> "undef"]             a field on the path is missing        *)
(*       [t |-> "nonstr"]            a truthy value that is not a string   *)
(*       [t |-> "str", s |-> chars]  a string                              *)
(***************************************************************************)
\* the backquote character (the one character a string of this language
\* cannot hold) and the fence made of three of them
BackQuote == "BACKQUOTE"

Fence == <<BackQuote, BackQuote, BackQuote>>

\* the fence regular expression of line 219, case-insensitive: the first
\* fence, an optional "json", then the text up to the next fence without
\* the white space around it
fenceMatch(s) ==
    LET i == IndexFrom(s, 1, Fence)
    IN  IF i = 0 THEN [matched |-> FALSE, capture |-> << >>]
        ELSE LET a == IF MatchAt(toLowerCase(s), i + 3, <<"j","s","o","n">>)
                      THEN i + 7 ELSE i + 3
                 c == IndexFrom(s, a, Fence)
             IN  IF c = 0 THEN [matched |-> FALSE, capture |-> << >>]
                 ELSE [matched |-> TRUE, capture |-> trim(SubSeq(s, a, c - 1))]

\* line 241: the first of the characters 1, 2, 3 in the text, or "" if none
digitMatch(s) ==
    IF \E i \in 1..Len(s) : s[i] \in {"1", "2", "3"}
    THEN s[CHOOSE i \in 1..Len(s) :
              /\ s[i] \in {"1", "2", "3"}
              /\ \A k \in 1..(i - 1) : s[k] \notin {"1", "2", "3"}]
    ELSE ""

\* lines 215-252: the label read from the message content
parseContent_NoDefault(c) ==
    IF c.t # "str" THEN ""
    ELSE LET fenced  == fenceMatch(c.s)
             trimmed == trim(IF fenced.matched THEN fenced.capture ELSE c.s)
         IN  IF MatchAt(trimmed, 1, <<"{">>) \/ MatchAt(trimmed, 1, <<"[">>)
             THEN LET parsed == JSONparse(trimmed)
                  IN  IF parsed.ok /\ parsed.val.t = "obj" /\ parsed.val.code.t = "str"
                            /\ Len(parsed.val.code.s) = 1
                      THEN parsed.val.code.s[1] ELSE ""
             ELSE digitMatch(trimmed)

parseContent_TextFirst(c) ==
    IF c.t # "str" THEN "1"
    ELSE LET fenced  == fenceMatch(c.s)
             trimmed == trim(IF fenced.matched THEN fenced.capture ELSE c.s)
         IN  IF digitMatch(trimmed) # "" THEN digitMatch(trimmed) ELSE "1"

parseContent(c) ==
    IF c.t = "nonstr" THEN "1"
    ELSE LET contentStr == IF c.t = "str" THEN c.s ELSE << >>
             fenced     == fenceMatch(contentStr)
             trimmed    == trim(IF fenced.matched THEN fenced.capture ELSE contentStr)
         IN  IF trimmed \in { <<"1">>, <<"2">>, <<"3">> } THEN trimmed[1]
             ELSE IF MatchAt(trimmed, 1, <<"{">>) \/ MatchAt(trimmed, 1, <<"[">>)
                  THEN LET parsed == JSONparse(trimmed)
                       IN  IF ~parsed.ok THEN "1"
                           ELSE IF /\ parsed.val.t = "obj"
                                   /\ parsed.val.code.t = "str"
                                   /\ parsed.val.code.s \in { <<"1">>, <<"2">>, <<"3">> }
                                THEN parsed.val.code.s[1]
                                ELSE "1"
                  ELSE IF digitMatch(trimmed) # "" THEN digitMatch(trimmed) ELSE "1"

\* lines 171-257: the label returned and the number of requests issued
classifyCommand_NoKeyCheck(apiKey, resp) ==
    IF resp.kind \in {"neterr", "badbody"} THEN [label |-> "1", requests |-> 1]
    ELSE [label |-> parseContent(resp.content), requests |-> 1]

classifyCommand(apiKey, resp) ==
    IF ~apiKey THEN [label |-> "1", requests |-> 0]
    ELSE IF resp.kind \in {"neterr", "badbody"} THEN [label |-> "1", requests |-> 1]
    ELSE [label |-> parseContent(resp.content), requests |-> 1]

(***************************************************************************)
(* Inputs of the loops: what the speech-to-text backend and the classifier *)
(* backend may answer                                                      *)
(***************************************************************************)
Str(x) == [t |-> "str", s |-> x]

T_Empty == << >>

T_Stop == <<"S","t","o","p">>

T_ScrollDown == <<"S","c","r","o","l","l"," ","D","O","W","N","!">>

T_Go == <<"g","o">>

\* the texts a transcription may carry
Transcripts == {T_Empty, T_Stop, T_ScrollDown, T_Go}

\* outcomes of client.audio.transcriptions.create: it rejects, or resolves
\* with a response whose text is a string or is missing
SttOutcomes ==
    {[kind |-> "error"], [kind |-> "ok", text |-> [t |-> "undef"]]}
        \cup {[kind |-> "ok", text |-> Str(x)] : x \in Transcripts}

R_NetErr == [kind |-> "neterr"]

R_Data(c) == [kind |-> "data", content |-> c]

C_Bare3 == Str(<<"3">>)

C_Text2 == Str(<<"u","p",":"," ","2">>)

C_Broken == Str(<<"{","\"","c","o","d","e","\"",":">>)

\* the backend outcomes the loops are run against
Responses ==
    {R_NetErr, R_Data(C_Bare3), R_Data(C_Text2), R_Data(C_Broken)}

(***************************************************************************)
(* The push-to-talk loop: startNodeVoiceLoop (index.ts)                    *)
(***************************************************************************)
\* bounds of the model: recordings started, stop-branch invocations of the
\* key handler, and Ctrl-C key events, in one run
MaxRecs == 3

MaxHandlers == 2

MaxInterrupts == 1

VARIABLES
    env,         \* which credentials process.env holds
    active,      \* the variable `active`: NoRec (null) or the current recording
    recs,        \* the recordings made so far: recorder, write stream, file
    handlers,    \* the invocations of the key handler that took the STOP branch
    proc,        \* "running", or "exited" (process.exit(0)), or "crashed"
    interrupts   \* Ctrl-C invocations of the key handler, each of which
                 \* called stagehand.close and waits for it

\* the streaming loop: startPythonVoiceLoop (test.js)
VARIABLES
    rl,          \* the readline interface: "open" or "closed"
    child,       \* the transcriber process: "running", "killed" or "exited"
    lineHandlers,\* the invocations of the "line" handler that called executeAction
    shutdown     \* "none", "closing" (exit handler awaits stagehand.close),
                 \* "closingAgain" (run awaits stagehand.close), "ended"

\* the action cache: simpleCache, readCache, actWithCache (index.ts)
VARIABLES
    cacheFile,   \* cache.json: NoFile, or the file with the entries it holds
    calls,       \* the calls of actWithCache in progress, one per caller
    finished     \* the calls of actWithCache that have ended, in order

\* the fixed-duration program: handleVoiceCommand, main (unnamed/part_000)
VARIABLES
    mainPc,      \* where main is: "prompt", "recording", "transcribing",
                 \* "executing", "closing" (run awaits stagehand.close), "ended"
    cycles,      \* the calls of handleVoiceCommand so far, with their recorder
    audioFile    \* whether command.mp3 exists

\* one call of classifyCommand taken alone (index.ts)
VARIABLES
    asked,       \* the transcript the call was given
    answer,      \* what the completions request of the call came back with
    verdict      \* what the call returned, and the requests it issued

\* one run of pruneDomToVisibleAndStore and restorePrunedDom (index.ts)
VARIABLES
    docIn,       \* the page before pruning: the children of every node, the
                 \* elements that are not visible, the nodes that are text
    doc,         \* the children of every node of the page as it is now
    stash,       \* window.__stagehandRemoved
    domPc        \* "start", "pruned" or "restored"

loopVars == <<env, active, recs, handlers, proc, interrupts>>

fixedVars == <<mainPc, cycles, audioFile>>

streamVars == <<rl, child, lineHandlers, shutdown>>

cacheVars == <<cacheFile, calls, finished>>

domVars == <<docIn, doc, stash, domPc>>

funVars == <<asked, answer, verdict, domVars>>

vars == <<loopVars, streamVars, cacheVars, fixedVars, funVars>>

NoRec == 0

NoResp == [kind |-> "none"]

ExitWords == << <<"e","x","i","t">>, <<"q","u","i","t">>, <<"s","t","o","p">> >>

\* lines 29-54: the transcript returned for a backend outcome
transcribeWithCartesia(apiKey, out) ==
    IF ~apiKey THEN << >>
    ELSE IF out.kind = "error" THEN << >>
    ELSE IF out.text.t = "str" THEN out.text.s
    ELSE << >>

\* lines 122-136: how executeAction ends when page.act resolves (ok) or
\* rejects: the catch clause reports the error and the function returns
executeAction_NoCatch(ok) == IF ok THEN "returned" ELSE "thrown"

executeAction(ok) == "returned"

\* lines 342-359: the branch taken for a label and a transcript
dispatch_Swapped(label, transcript) ==
    IF label = "3" THEN "scrollUp"
    ELSE IF label = "2" THEN "scrollDown"
    ELSE IF includes(ExitWords, toLowerCase(transcript)) THEN "exit"
    ELSE "act"

dispatch(label, transcript) ==
    IF label = "3" THEN "scrollDown"
    ELSE IF label = "2" THEN "scrollUp"
    ELSE IF includes(ExitWords, toLowerCase(transcript)) THEN "exit"
    ELSE "act"

Running == proc = "running"

\* cache.json: whether the file exists, and the entries its text holds
NoFile == [exists |-> FALSE, entries |-> << >>, torn |-> FALSE]

FileWith(entries) == [exists |-> TRUE, entries |-> entries, torn |-> FALSE]

\* cache.json holding the bytes of two writes that overlapped, which is not
\* JSON text
TornFile == [exists |-> TRUE, entries |-> << >>, torn |-> TRUE]

\* the push-to-talk loop before the first key
LoopIdle ==
    /\ active = NoRec
    /\ recs = << >>
    /\ handlers = << >>
    /\ proc = "running"
    /\ interrupts = 0

\* the streaming loop once the transcriber is spawned
StreamIdle ==
    /\ rl = "open"
    /\ child = "running"
    /\ lineHandlers = << >>
    /\ shutdown = "none"

\* bounds of the model: concurrent callers of actWithCache, and calls in one run
MaxCallers == 2

MaxCalls == 2

Undefined == "undefined"

\* the caller is not inside actWithCache
IdleCall ==
    [pc |-> "idle", instr |-> << >>, start |-> 0, readOk |-> FALSE,
     cached |-> Undefined, observes |-> 0, action |-> Undefined,
     pending |-> << >>, raced |-> FALSE, stored |-> Undefined,
     acted |-> "none"]

\* no cache.json yet, no call of actWithCache
CacheIdle ==
    /\ cacheFile = NoFile
    /\ calls = [p \in 1..MaxCallers |-> IdleCall]
    /\ finished = << >>

\* main of the fixed-duration program before the first prompt
FixedIdle ==
    /\ mainPc = "prompt"
    /\ cycles = << >>
    /\ audioFile = FALSE

\* classifyCommand has not been called
NoVerdict == [label |-> "none", requests |-> 0]

\* a page whose body is empty
EmptyPage == [kids |-> [n \in {0} |-> << >>], hidden |-> { }, texts |-> { }]

FunIdle ==
    /\ asked = << >>
    /\ answer = NoResp
    /\ verdict = NoVerdict
    /\ docIn = EmptyPage
    /\ doc = EmptyPage.kids
    /\ stash = << >>
    /\ domPc = "start"

Init ==
    /\ env \in [cartesia : BOOLEAN, cerebras : BOOLEAN, openai : {TRUE}]
    /\ LoopIdle
    /\ StreamIdle
    /\ CacheIdle
    /\ FixedIdle
    /\ FunIdle

\* the streaming loop and the cache read no credential
InitNoEnv ==
    /\ env = [cartesia |-> TRUE, cerebras |-> TRUE, openai |-> TRUE]
    /\ LoopIdle
    /\ StreamIdle
    /\ CacheIdle
    /\ FixedIdle
    /\ FunIdle

\* lines 289-297: Ctrl-C
Interrupt ==
    /\ interrupts < MaxInterrupts
    /\ recs' = IF active # NoRec
               THEN [recs EXCEPT ![active].running = FALSE]
               ELSE recs
    /\ interrupts' = interrupts + 1
    /\ UNCHANGED <<env, active, handlers, proc, streamVars, cacheVars, fixedVars, funVars>>

\* lines 301-325: start a recording
StartRecording ==
    /\ Len(recs) < MaxRecs
    /\ recs' = Append(recs, [running |-> TRUE, finished |-> FALSE, file |-> TRUE, failed |-> FALSE])
    /\ active' = Len(recs) + 1
    /\ UNCHANGED <<env, handlers, proc, interrupts, streamVars, cacheVars, fixedVars, funVars>>

\* lines 327-332: stop the recorder and wait for the write stream to finish
StopRecording ==
    /\ Len(handlers) < MaxHandlers
    /\ recs' = [recs EXCEPT ![active].running = FALSE]
    /\ handlers' = Append(handlers,
                      [rec |-> active, pc |-> "awaitFinish", transcript |-> << >>,
                       resp |-> NoResp, label |-> "", op |-> "none", arg |-> << >>])
    /\ UNCHANGED <<env, active, proc, interrupts, streamVars, cacheVars, fixedVars, funVars>>

\* lines 287-366: one "data" event of stdin
OnData(key) ==
    /\ Running
    /\ IF key = "\\u0003" THEN Interrupt
       ELSE IF key # "m" THEN UNCHANGED vars
       ELSE IF active = NoRec THEN StartRecording
       ELSE StopRecording

\* lines 306-322: the recorder process ends by itself while it is recording
\* (the device fails, or the silence threshold of line 314 is reached): its
\* output ends and the piped write stream finishes; when the recorder
\* object reports the error instead, nothing listens for it and the process
\* ends
CaptureError(r, how) ==
    /\ Running
    /\ r \in DOMAIN recs
    /\ recs[r].running
    /\ IF how = "ends"
       THEN /\ recs' = [recs EXCEPT ![r].running = FALSE, ![r].finished = TRUE,
                                      ![r].failed = TRUE]
            /\ UNCHANGED proc
       ELSE /\ proc' = "crashed"
            /\ recs' = [recs EXCEPT ![r].failed = TRUE]
    /\ UNCHANGED <<env, active, handlers, interrupts, streamVars, cacheVars, fixedVars, funVars>>

\* line 332: the write stream of a stopped recorder emits "finish"; every
\* invocation waiting for it goes on to line 336
StreamFinish(r) ==
    /\ Running
    /\ r \in DOMAIN recs
    /\ ~recs[r].running
    /\ ~recs[r].finished
    /\ recs' = [recs EXCEPT ![r].finished = TRUE]
    /\ handlers' = [h \in DOMAIN handlers |->
                      IF handlers[h].rec = r /\ handlers[h].pc = "awaitFinish"
                      THEN [handlers[h] EXCEPT !.pc = "transcribing"]
                      ELSE handlers[h]]
    /\ UNCHANGED <<env, active, proc, interrupts, streamVars, cacheVars, fixedVars, funVars>>

\* lines 336-340: the transcription settles and classifyCommand is called
TranscribeDone(h, out) ==
    /\ Running
    /\ h \in DOMAIN handlers
    /\ handlers[h].pc = "transcribing"
    /\ handlers' = [handlers EXCEPT
                      ![h].transcript = transcribeWithCartesia(env.cartesia, out),
                      ![h].pc = "classifying"]
    /\ UNCHANGED <<env, active, recs, proc, interrupts, streamVars, cacheVars, fixedVars, funVars>>

\* lines 340-359: classifyCommand settles and the command is dispatched
ClassifyDone(h, resp) ==
    /\ Running
    /\ h \in DOMAIN handlers
    /\ handlers[h].pc = "classifying"
    /\ LET c  == classifyCommand(env.cerebras, resp)
           t  == handlers[h].transcript
           op == dispatch(c.label, t)
       IN  /\ handlers' = [handlers EXCEPT
                  ![h].resp  = IF c.requests = 1 THEN resp ELSE NoResp,
                  ![h].label = c.label,
                  ![h].op    = op,
                  ![h].arg   = IF op = "act" THEN t ELSE << >>,
                  ![h].pc    = CASE op = "exit" -> "closing"
                                 [] op = "act"  -> "acting"
                                 [] OTHER       -> "scrolling"]
    /\ UNCHANGED <<env, active, recs, proc, interrupts, streamVars, cacheVars, fixedVars, funVars>>

\* lines 361-364: unlink the file, active = null
Cleanup(h) ==
    /\ recs' = [recs EXCEPT ![handlers[h].rec].file = FALSE]
    /\ active' = NoRec

\* an invocation that has ended: its local variables are gone, what is kept
\* is the recording it was for and how its browser operation ended
Ended(h, pc, op) ==
    [rec |-> handlers[h].rec, pc |-> pc, transcript |-> << >>, resp |-> NoResp,
     label |-> "", op |-> op, arg |-> << >>]

\* number of calls of stagehand.close so far (lines 294 and 354)
closeCalls ==
    interrupts + Cardinality({h \in DOMAIN handlers : handlers[h].pc = "closing"})

\* lines 344-351: page.evaluate settles; a rejection is not caught in the
\* handler, and the unhandled rejection ends the process
ScrollDone(h, ok) ==
    /\ Running
    /\ h \in DOMAIN handlers
    /\ handlers[h].pc = "scrolling"
    /\ IF ok
       THEN /\ Cleanup(h)
            /\ handlers' = [handlers EXCEPT ![h] = Ended(h, "done", handlers[h].op)]
            /\ UNCHANGED proc
       ELSE /\ handlers' = [handlers EXCEPT ![h] = Ended(h, "rejected", "scrollFailed")]
            /\ proc' = "crashed"
            /\ UNCHANGED <<recs, active>>
    /\ UNCHANGED <<env, interrupts, streamVars, cacheVars, fixedVars, funVars>>

\* line 358 and 361-364: page.act settles inside executeAction
ActDone(h, ok) ==
    /\ Running
    /\ h \in DOMAIN handlers
    /\ handlers[h].pc = "acting"
    /\ IF executeAction(ok) = "returned"
       THEN /\ Cleanup(h)
            /\ handlers' = [handlers EXCEPT
                  ![h] = Ended(h, "done", IF ok THEN "act" ELSE "actFailed")]
            /\ UNCHANGED proc
       ELSE /\ handlers' = [handlers EXCEPT ![h] = Ended(h, "rejected", "actFailed")]
            /\ proc' = "crashed"
            /\ UNCHANGED <<recs, active>>
    /\ UNCHANGED <<env, interrupts, streamVars, cacheVars, fixedVars, funVars>>

\* lines 294-296: stagehand.close settles for a Ctrl-C; resolve, process.exit(0)
InterruptCloseDone ==
    /\ Running
    /\ interrupts > 0
    /\ proc' = "exited"
    /\ UNCHANGED <<env, active, recs, handlers, interrupts, streamVars, cacheVars, fixedVars, funVars>>

\* lines 354-356: stagehand.close settles for a voice exit
VoiceExitCloseDone(h) ==
    /\ Running
    /\ h \in DOMAIN handlers
    /\ handlers[h].pc = "closing"
    /\ proc' = "exited"
    /\ UNCHANGED handlers
    /\ UNCHANGED <<env, active, recs, interrupts, streamVars, cacheVars, fixedVars, funVars>>

Keys == {"m", "\\u0003", "x"}

Next ==
    \/ \E key \in Keys : OnData(key)
    \/ \E r \in 1..MaxRecs : \E how \in {"ends", "throws"} : CaptureError(r, how)
    \/ \E r \in 1..MaxRecs : StreamFinish(r)
    \/ \E h \in 1..MaxHandlers : \E out \in SttOutcomes : TranscribeDone(h, out)
    \/ \E h \in 1..MaxHandlers : \E resp \in Responses : ClassifyDone(h, resp)
    \/ \E h \in 1..MaxHandlers : \E ok \in BOOLEAN : ScrollDone(h, ok)
    \/ \E h \in 1..MaxHandlers : \E ok \in BOOLEAN : ActDone(h, ok)
    \/ InterruptCloseDone
    \/ \E h \in 1..MaxHandlers : VoiceExitCloseDone(h)

Spec == Init /\ [][Next]_vars

\* the steps the runtime takes by itself: an awaited stream event or promise
\* settles and the invocation waiting for it goes on
Completions ==
    \/ \E r \in 1..MaxRecs : StreamFinish(r)
    \/ \E h \in 1..MaxHandlers : \E out \in SttOutcomes : TranscribeDone(h, out)
    \/ \E h \in 1..MaxHandlers : \E resp \in Responses : ClassifyDone(h, resp)
    \/ \E h \in 1..MaxHandlers : \E ok \in BOOLEAN : ScrollDone(h, ok)
    \/ \E h \in 1..MaxHandlers : \E ok \in BOOLEAN : ActDone(h, ok)
    \/ InterruptCloseDone
    \/ \E h \in 1..MaxHandlers : VoiceExitCloseDone(h)

\* the push-to-talk loop when every awaited operation settles
FairSpec == Spec /\ WF_vars(Completions)

(***************************************************************************)
(* Properties of the push-to-talk loop                                     *)
(***************************************************************************)
\* the invocations that are between the end of the recording and their end
Processing == {"transcribing", "classifying", "scrolling", "acting", "closing"}

\* the invocations whose browser operation (scroll or page.act) is in flight
InBrowser == {"scrolling", "acting"}

\* the invocations for which classifyCommand has returned
Classified == {"scrolling", "acting", "closing"}

IsExitWord(t) == includes(ExitWords, toLowerCase(t))

ScrollDownPhrase == <<"s","c","r","o","l","l"," ","d","o","w","n">>

\* t contains "scroll down", case-insensitively
SaysScrollDown(t) ==
    \E i \in 1..Len(t) : MatchAt(toLowerCase(t), i, ScrollDownPhrase)

\* C1: a transcript shorter than the fragment threshold, the empty transcript
\* included, leads to no browser action: no invocation whose transcript is
\* empty is ever in a scroll or in page.act.
C1_EmptyTranscriptIsNoOp ==
    \A h \in DOMAIN handlers :
        handlers[h].pc \in InBrowser => handlers[h].transcript # << >>

\* C2: for a transcript that is an exit word, neither classifyCommand nor a
\* scroll nor page.act is invoked: the invocation goes from the transcription
\* straight to the shutdown.
C2_ExitWordSkipsClassifier ==
    \A h \in DOMAIN handlers :
        (handlers[h].pc \in Processing /\ IsExitWord(handlers[h].transcript))
            => handlers[h].pc \in {"transcribing", "closing"}

\* C3: for a transcript that contains "scroll down", the classifier is not
\* called and the operation performed is the downward scroll.
C3_ScrollDownSkipsClassifier ==
    \A h \in DOMAIN handlers :
        (handlers[h].pc \in Processing /\ SaysScrollDown(handlers[h].transcript))
            => /\ handlers[h].pc \in {"transcribing", "scrolling"}
               /\ handlers[h].pc = "scrolling" => handlers[h].op = "scrollDown"

\* the message content carries no label in any of the three shapes
Unparsable(c) ==
    \/ c.t # "str"
    \/ LET f == fenceMatch(c.s)
           t == trim(IF f.matched THEN f.capture ELSE c.s)
       IN  IF MatchAt(t, 1, <<"{">>) \/ MatchAt(t, 1, <<"[">>)
           THEN ~JSONparse(t).ok
           ELSE digitMatch(t) = ""

\* the classification of invocation h failed: no credential, the request
\* failed, or the content cannot be parsed
ClassifierFailed(h) ==
    /\ handlers[h].pc \in Classified
    /\ \/ ~env.cerebras
       \/ handlers[h].resp.kind \in {"neterr", "badbody"}
       \/ handlers[h].resp.kind = "data" /\ Unparsable(handlers[h].resp.content)

CycleEnded(r) ==
    \/ \E h \in DOMAIN handlers :
          handlers[h].rec = r /\ handlers[h].pc \in {"done", "rejected"}
    \/ proc # "running"

\* C6: once the dispatch cycle of a recording has ended, its temporary audio
\* file no longer exists.
C6_TempFileGone ==
    \A r \in DOMAIN recs : CycleEnded(r) => ~recs[r].file

\* C7: when page.act rejects, the invocation ends normally: the process keeps
\* running, and the loop is ready for the next toggle (active = null).
C7_ActFailureRecovers ==
    [][\A h \in DOMAIN handlers :
          (handlers[h].pc = "acting" /\ handlers'[h].op = "actFailed")
              => /\ handlers'[h].pc = "done"
                 /\ proc' = "running"
                 /\ active' = NoRec]_vars

C7_Witness ==
    \E h \in DOMAIN handlers :
        /\ handlers[h].op = "actFailed"
        /\ handlers[h].pc = "done"
        /\ proc = "running"
        /\ active = NoRec

\* C8: at most one utterance is being processed, and at most one browser
\* operation is executing, at any time.
C8_OneUtteranceInFlight ==
    /\ Cardinality({h \in DOMAIN handlers : handlers[h].pc \in Processing}) <= 1
    /\ Cardinality({h \in DOMAIN handlers : handlers[h].pc \in InBrowser}) <= 1

\* invocation h took the STOP branch for a recording that an earlier
\* invocation had already stopped
LateToggle(h) ==
    \E g \in 1..(h - 1) : handlers[g].rec = handlers[h].rec

\* C10: a toggle that arrives while the recording is being written out or
\* processed is ignored: its invocation starts no recorder and never gets to
\* transcribe, classify or dispatch.
C10_LateToggleIgnored ==
    \A h \in DOMAIN handlers : LateToggle(h) => handlers[h].pc = "awaitFinish"

\* C11: a Ctrl-C, in whatever state the loop is, stops the capture that is
\* running, and the program then closes the session and the process ends.
C11_InterruptShutsDown ==
    /\ [][interrupts' > interrupts
            => \A r \in DOMAIN recs' : ~recs'[r].running]_vars
    /\ (interrupts > 0) ~> (proc # "running")

\* C14: after a stop toggle, unless a shutdown was requested, the loop gets
\* back to the state in which the next toggle starts a recording.
C14_ReturnsToReady ==
    (handlers # << >> /\ active # NoRec)
        ~> (active = NoRec \/ closeCalls > 0)

\* C18: a capture error aborts the cycle: the recording is not transcribed,
\* and the loop gets back to idle and keeps running.
C18_CaptureErrorAbortsCycle ==
    /\ [](\A h \in DOMAIN handlers :
            recs[handlers[h].rec].failed => handlers[h].pc = "awaitFinish")
    /\ (\E r \in DOMAIN recs : recs[r].failed)
          ~> (active = NoRec /\ proc = "running")

\* C26: each recording is transcribed at most once, classified at most once
\* and dispatched at most once, whatever keys are pressed, toggles between the
\* stop toggle and the end of the processing included.
C26_RecordingProcessedOnce ==
    LET \* the invocations for recording r that are past the positions in
        \* before: past the wait they have called transcribeWithCartesia,
        \* past that classifyCommand, past that a dispatch branch
        Reached(r, before) ==
            {h \in DOMAIN handlers :
                handlers[h].rec = r /\ handlers[h].pc \notin before}
    IN  \A r \in DOMAIN recs :
            /\ Cardinality(Reached(r, {"awaitFinish"})) <= 1
            /\ Cardinality(Reached(r, {"awaitFinish", "transcribing"})) <= 1
            /\ Cardinality(Reached(r, {"awaitFinish", "transcribing", "classifying"})) <= 1

ShutdownBegun == closeCalls > 0

\* in this step an invocation enters one of the positions in S
Enters(S) ==
    \E h \in DOMAIN handlers' :
        /\ handlers'[h].pc \in S
        /\ h \in DOMAIN handlers => handlers[h].pc \notin S

\* C13: once shutdown has begun no recording is started, and no classifier
\* call and no browser action is initiated.
C13_ShutdownIsTerminal ==
    [][ShutdownBegun =>
          /\ Len(recs') = Len(recs)
          /\ ~Enters({"classifying"})
          /\ ~Enters(InBrowser)]_vars

\* C16: label '3' scrolls down and label '2' scrolls up, both without
\* page.act; label '1' with a transcript that is not an exit word calls
\* page.act with the verbatim transcript, once in the invocation.
C16_DispatchByLabel ==
    /\ [](\A h \in DOMAIN handlers :
            handlers[h].pc \in Classified =>
              /\ handlers[h].label = "3" =>
                    /\ handlers[h].pc = "scrolling"
                    /\ handlers[h].op = "scrollDown"
              /\ handlers[h].label = "2" =>
                    /\ handlers[h].pc = "scrolling"
                    /\ handlers[h].op = "scrollUp"
              /\ (handlers[h].label = "1" /\ ~IsExitWord(handlers[h].transcript)) =>
                    /\ handlers[h].pc = "acting"
                    /\ handlers[h].arg = handlers[h].transcript)
    /\ [][\A h \in DOMAIN handlers :
            (handlers'[h].pc = "acting" /\ handlers[h].pc # "acting")
                => handlers[h].pc = "classifying"]_vars

C16_Witness ==
    \E h \in DOMAIN handlers :
        /\ handlers[h].label = "3"
        /\ handlers[h].transcript = T_Go
        /\ handlers[h].op = "scrollDown"
        /\ handlers[h].pc = "scrolling"

\* C19: at most one recorder is running, and a recorder that is running is
\* the one `active` refers to, so that the next toggle stops it.
C19_TwoStateToggle ==
    /\ Cardinality({r \in DOMAIN recs : recs[r].running}) <= 1
    /\ \A r \in DOMAIN recs : recs[r].running => active = r

(***************************************************************************)
(* The streaming loop: startPythonVoiceLoop (test.js)                      *)
(***************************************************************************)
\* bound of the model: the lines for which executeAction is called in one run
MaxLines == 3

Stamp == <<"[","1","2",":","0","0",":","0","7","]"," ","-",">"," ">>

L_Info == <<"r","e","a","d","y">>

\* the lines the transcriber may print
Lines ==
    {L_Info, Stamp, Stamp \o <<" ">>, Stamp \o T_Go, Stamp \o T_ScrollDown,
     Stamp \o <<"Q","u","i","t"," ">>}

\* the pattern of line 306 matches at position i: a bracketed hh:mm:ss, the
\* arrow, and at least one more character
StampAt(s, i) ==
    /\ i + 14 <= Len(s)
    /\ s[i] = "["
    /\ \A k \in {1, 2, 4, 5, 7, 8} : s[i + k] \in Digits
    /\ s[i + 3] = ":"
    /\ s[i + 6] = ":"
    /\ MatchAt(s, i + 9, <<"]"," ","-",">"," ">>)

\* line 306: line.match(...), the capture being the rest of the line
lineMatch(s) ==
    IF \E i \in 1..Len(s) : StampAt(s, i)
    THEN LET i == CHOOSE i \in 1..Len(s) :
                     StampAt(s, i) /\ \A k \in 1..(i - 1) : ~StampAt(s, k)
         IN  [matched |-> TRUE, capture |-> From(s, i + 14)]
    ELSE [matched |-> FALSE, capture |-> << >>]

\* lines 305-322: one "line" event of the readline interface
OnLine(line) ==
    /\ rl = "open"
    /\ LET m == lineMatch(line)
           transcribedMessage == trim(m.capture)
       IN  IF ~m.matched THEN UNCHANGED streamVars
           ELSE IF includes(ExitWords, toLowerCase(transcribedMessage))
           THEN /\ rl' = "closed"
                /\ child' = IF child = "running" THEN "killed" ELSE child
                /\ UNCHANGED <<lineHandlers, shutdown>>
           ELSE /\ Len(lineHandlers) < MaxLines
                /\ lineHandlers' = Append(lineHandlers,
                                     [pc |-> "acting", arg |-> transcribedMessage])
                /\ UNCHANGED <<rl, child, shutdown>>
    /\ UNCHANGED <<loopVars, cacheVars, fixedVars, funVars>>

\* line 320: page.act settles inside executeAction and the invocation ends
LineActDone(h, ok) ==
    /\ h \in DOMAIN lineHandlers
    /\ lineHandlers[h].pc = "acting"
    /\ lineHandlers' = [lineHandlers EXCEPT
                          ![h] = [pc  |-> IF executeAction(ok) = "returned"
                                          THEN "done" ELSE "rejected",
                                  arg |-> << >>]]
    /\ UNCHANGED <<rl, child, shutdown, loopVars, cacheVars, fixedVars, funVars>>

\* lines 324-326: the transcriber exits (killed, or by itself) and the exit
\* handler calls stagehand.close
ChildExit ==
    /\ child # "exited"
    /\ child' = "exited"
    /\ shutdown' = "closing"
    /\ UNCHANGED <<rl, lineHandlers, loopVars, cacheVars, fixedVars, funVars>>

\* the output of the exited transcriber ends and readline closes
InputEnd ==
    /\ child = "exited"
    /\ rl = "open"
    /\ rl' = "closed"
    /\ UNCHANGED <<child, lineHandlers, shutdown, loopVars, cacheVars, fixedVars, funVars>>

\* lines 326-327 and 375-380: stagehand.close settles; the first time the
\* promise of the loop resolves and run calls stagehand.close again
CloseSettles ==
    /\ shutdown \in {"closing", "closingAgain"}
    /\ shutdown' = IF shutdown = "closing" THEN "closingAgain" ELSE "ended"
    /\ UNCHANGED <<rl, child, lineHandlers, loopVars, cacheVars, fixedVars, funVars>>

NextStream ==
    \/ \E line \in Lines : OnLine(line)
    \/ \E h \in 1..MaxLines : \E ok \in BOOLEAN : LineActDone(h, ok)
    \/ ChildExit
    \/ InputEnd
    \/ CloseSettles

SpecStream == InitNoEnv /\ [][NextStream]_vars

\* C9: in the streaming loop two page.act calls are never in flight at the
\* same time.
C9_OneActInFlight ==
    Cardinality({h \in DOMAIN lineHandlers : lineHandlers[h].pc = "acting"}) <= 1

\* number of calls of stagehand.close so far in the streaming program
\* (test.js lines 326 and 380)
streamCloseCalls ==
    CASE shutdown = "none"    -> 0
      [] shutdown = "closing" -> 1
      [] OTHER                -> 2

\* C12: in one run stagehand.close is called at most once, in the
\* push-to-talk program and in the streaming program.
C12_CloseInitiatedOnce ==
    /\ closeCalls <= 1
    /\ streamCloseCalls <= 1

(***************************************************************************)
(* The action cache: simpleCache, readCache, actWithCache (index.ts)       *)
(*                                                                         *)
(* A JavaScript object is the sequence of its own entries [k, v] in        *)
(* insertion order; a member set to undefined is an entry whose v is       *)
(* Undefined. The object is a plain one ({} or the result of JSON.parse),  *)
(* so a name it does not own is looked up in Object.prototype. The text of *)
(* cache.json is the sequence of the entries JSON.stringify writes.        *)
(***************************************************************************)
I_Go == <<"G","o">>

I_Proto == <<"_","_","p","r","o","t","o","_","_">>

\* instruction texts: two that differ only in case, and one that names the
\* prototype accessor of a plain object
Instructions == {I_Go, T_Go, I_Proto}

\* what a plain object answers for a name it does not own
Inherited(k) ==
    IF k = I_Proto THEN "Object.prototype" ELSE Undefined

\* what page.observe may answer: it rejects, or resolves with a list of
\* action descriptors
ObserveOutcomes ==
    {[kind |-> "throw"], [kind |-> "ok", results |-> << >>],
     [kind |-> "ok", results |-> <<"d1">>],
     [kind |-> "ok", results |-> <<"d2", "d1">>]}

HasKey(obj, k) == \E i \in DOMAIN obj : obj[i].k = k

\* obj[k]
Get(obj, k) ==
    IF HasKey(obj, k)
    THEN obj[CHOOSE i \in DOMAIN obj : obj[i].k = k].v
    ELSE Inherited(k)

\* obj[k] = v; the assignment to the prototype accessor replaces the
\* prototype of this object and adds no entry
Set(obj, k, v) ==
    IF k = I_Proto /\ ~HasKey(obj, k) THEN obj
    ELSE IF HasKey(obj, k)
    THEN [i \in DOMAIN obj |-> IF obj[i].k = k THEN [k |-> k, v |-> v] ELSE obj[i]]
    ELSE Append(obj, [k |-> k, v |-> v])

IsDefined(e) == e.v # Undefined

\* JSON.stringify(obj, null, 2): members that are undefined are left out
JSONstringify(obj) == SelectSeq(obj, IsDefined)

\* lines 550-560: readCache, given whether fs.readFile succeeds
readCache(ok, file, instruction) ==
    IF ~ok \/ ~file.exists \/ file.torn THEN Undefined
    ELSE Get(file.entries, instruction)

\* lines 532-544: the text simpleCache writes, given whether its
\* fs.readFile succeeds
simpleCache(ok, file, instruction, actionToCache) ==
    LET cache == IF ~ok \/ ~file.exists \/ file.torn THEN << >> ELSE file.entries
    IN  JSONstringify(Set(cache, instruction, actionToCache))

InCall(p) == calls[p].pc # "idle"

\* the call of caller p ends: it is recorded and the caller is free again
Finish(p, c, how) ==
    /\ finished' = Append(finished,
                     [instr |-> c.instr, start |-> c.start, readOk |-> c.readOk,
                      cached |-> c.cached, observes |-> c.observes,
                      stored |-> c.stored, acted |-> c.acted, end |-> how])
    /\ calls' = [calls EXCEPT ![p] = IdleCall]

\* line 574: actWithCache is called and calls readCache
CallActWithCache(p, instruction) ==
    /\ ~InCall(p)
    /\ Len(finished) + Cardinality({q \in DOMAIN calls : InCall(q)}) < MaxCalls
    /\ calls' = [calls EXCEPT ![p] =
                    [IdleCall EXCEPT !.pc = "readCache", !.instr = instruction,
                                     !.start = Len(finished)]]
    /\ UNCHANGED <<cacheFile, finished, loopVars, streamVars, fixedVars, funVars>>

\* lines 574-582: readCache settles; a hit calls page.act with the cached
\* action, a miss calls page.observe
ReadCacheDone(p, ok) ==
    /\ calls[p].pc = "readCache"
    /\ ok => (cacheFile.exists /\ ~cacheFile.torn)
    /\ LET cachedAction == readCache(ok, cacheFile, calls[p].instr)
       IN  calls' = [calls EXCEPT ![p] =
              IF cachedAction # Undefined
              THEN [@ EXCEPT !.pc = "actCached", !.readOk = ok,
                             !.cached = cachedAction, !.acted = cachedAction]
              ELSE [@ EXCEPT !.pc = "observe", !.readOk = ok, !.observes = 1]]
    /\ UNCHANGED <<cacheFile, finished, loopVars, streamVars, fixedVars, funVars>>

\* lines 582-588: page.observe settles; simpleCache starts reading the file
ObserveDone(p, out) ==
    /\ calls[p].pc = "observe"
    /\ IF out.kind = "throw"
       THEN Finish(p, calls[p], "threw")
       ELSE /\ calls' = [calls EXCEPT
                  ![p].pc = "cacheRead",
                  ![p].action = IF Len(out.results) > 0
                                THEN out.results[1] ELSE Undefined]
            /\ UNCHANGED finished
    /\ UNCHANGED <<cacheFile, loopVars, streamVars, fixedVars, funVars>>

\* lines 533-544: the read of simpleCache settles and the write is issued
SimpleCacheRead(p, ok) ==
    /\ calls[p].pc = "cacheRead"
    /\ ok => (cacheFile.exists /\ ~cacheFile.torn)
    /\ calls' = [calls EXCEPT
          ![p].pc = "cacheWrite",
          ![p].pending = simpleCache(ok, cacheFile, calls[p].instr, calls[p].action)]
    /\ UNCHANGED <<cacheFile, finished, loopVars, streamVars, fixedVars, funVars>>

\* the writes of simpleCache issued by other callers and not settled yet
Overlapping(p) ==
    {q \in DOMAIN calls \ {p} : calls[q].pc = "cacheWrite"}

\* line 544: what cache.json holds when the fs.writeFile of caller p settles
\* without error. fs.writeFile is not atomic: of two calls on one file that
\* overlap, the file ends with the text of either or with bytes of both.
WriteOutcomes(p) ==
    IF Overlapping(p) = { } /\ ~calls[p].raced
    THEN {FileWith(calls[p].pending)}
    ELSE {FileWith(calls[p].pending), TornFile}
            \cup {FileWith(calls[q].pending) : q \in Overlapping(p)}
            \cup (IF calls[p].raced THEN {cacheFile} ELSE { })

\* lines 544-547: the write settles; a failure is reported and swallowed
SimpleCacheWrite_NoCatch(p, ok) ==
    /\ calls[p].pc = "cacheWrite"
    /\ IF ok
       THEN /\ cacheFile' \in WriteOutcomes(p)
            /\ calls' = [calls EXCEPT ![p].pc = "overlay", ![p].pending = << >>,
                                      ![p].stored = calls[p].action]
            /\ UNCHANGED finished
       ELSE /\ cacheFile' = cacheFile
            /\ Finish(p, calls[p], "threw")
    /\ UNCHANGED <<loopVars, streamVars, fixedVars, funVars>>

\* lines 544-547: the write settles; a failure is reported and swallowed
SimpleCacheWrite(p, ok) ==
    /\ calls[p].pc = "cacheWrite"
    /\ IF ok THEN cacheFile' \in WriteOutcomes(p) ELSE cacheFile' = cacheFile
    /\ calls' = [q \in DOMAIN calls |->
          IF q = p
          THEN [calls[p] EXCEPT
                  !.pc = "overlay", !.pending = << >>, !.raced = FALSE,
                  !.stored = IF ok THEN calls[p].action ELSE Undefined]
          ELSE IF q \in Overlapping(p) THEN [calls[q] EXCEPT !.raced = TRUE]
          ELSE calls[q]]
    /\ UNCHANGED <<finished, loopVars, streamVars, fixedVars, funVars>>

\* lines 590-595: the overlay is drawn and cleared, then page.act is called
\* with the observed action; a rejection of the overlay calls ends the call
OverlayDone(p, ok) ==
    /\ calls[p].pc = "overlay"
    /\ IF ok
       THEN /\ calls' = [calls EXCEPT ![p].pc = "act", ![p].acted = calls[p].action]
            /\ UNCHANGED finished
       ELSE Finish(p, calls[p], "threw")
    /\ UNCHANGED <<cacheFile, loopVars, streamVars, fixedVars, funVars>>

\* lines 577-578 and 595: page.act settles and actWithCache ends
CachedActDone(p, ok) ==
    /\ calls[p].pc \in {"actCached", "act"}
    /\ Finish(p, calls[p], IF ok THEN "returned" ELSE "threw")
    /\ UNCHANGED <<cacheFile, loopVars, streamVars, fixedVars, funVars>>

NextCache ==
    \/ \E p \in 1..MaxCallers : \E i \in Instructions : CallActWithCache(p, i)
    \/ \E p \in 1..MaxCallers : \E ok \in BOOLEAN : ReadCacheDone(p, ok)
    \/ \E p \in 1..MaxCallers : \E out \in ObserveOutcomes : ObserveDone(p, out)
    \/ \E p \in 1..MaxCallers : \E ok \in BOOLEAN : SimpleCacheRead(p, ok)
    \/ \E p \in 1..MaxCallers : \E ok \in BOOLEAN : SimpleCacheWrite(p, ok)
    \/ \E p \in 1..MaxCallers : \E ok \in BOOLEAN : OverlayDone(p, ok)
    \/ \E p \in 1..MaxCallers : \E ok \in BOOLEAN : CachedActDone(p, ok)

SpecCache == InitNoEnv /\ [][NextCache]_vars

(***************************************************************************)
(* Properties of the action cache                                          *)
(***************************************************************************)
\* finished[i] and finished[i+1] are two calls with the same instruction made
\* one after the other, and no other call overlaps either of them
CalledTwice(i) ==
    /\ i \in DOMAIN finished
    /\ i + 1 \in DOMAIN finished
    /\ finished[i].instr = finished[i + 1].instr
    /\ finished[i].start = i - 1
    /\ finished[i + 1].start = i
    /\ \A j \in DOMAIN finished : j > i + 1 => finished[j].start >= i + 1
    /\ \A p \in DOMAIN calls : InCall(p) => calls[p].start >= i + 1

\* the second call found the entry, did not observe, and called page.act
\* with the descriptor d
SecondCallReplays(i, d) ==
    /\ finished[i + 1].cached = d
    /\ finished[i + 1].observes = 0
    /\ finished[i + 1].acted = d

\* every file operation of the first call succeeded and it observed a result
FirstCallStored(i) ==
    /\ finished[i].observes = 1
    /\ finished[i].stored # Undefined

\* C4: when actWithCache is called twice with the same instruction text, the
\* second call finds the entry in the cache, makes no call to observe, and
\* executes the descriptor the first call stored. The claim is taken in the
\* case most favourable to it: the first call observed a result and wrote
\* cache.json, and the second call read cache.json.
C4_SecondCallHits ==
    \A i \in DOMAIN finished :
        (CalledTwice(i) /\ FirstCallStored(i) /\ finished[i + 1].readOk)
            => SecondCallReplays(i, finished[i].stored)

\* C15: a transcript forwarded to page.act by the voice loop was first
\* looked up with actWithCache, and after the action succeeded the cache file
\* holds its entry.
C15_ForwardConsultsCache ==
    \A h \in DOMAIN handlers :
        /\ handlers[h].pc = "acting"
              => \/ \E p \in DOMAIN calls : calls[p].instr = handlers[h].arg
                 \/ \E i \in DOMAIN finished : finished[i].instr = handlers[h].arg
        /\ (handlers[h].pc = "done" /\ handlers[h].op = "act") => cacheFile.exists

\* the call of caller p completes in this step a write of cache.json that was
\* prepared from the file as it is now
Puts(p) ==
    /\ calls[p].pc = "cacheWrite"
    /\ calls'[p].pc = "overlay"
    /\ calls'[p].stored # Undefined
    /\ calls[p].pending = simpleCache(TRUE, cacheFile, calls[p].instr, calls[p].action)

\* C20: after put(k, d), get(k) is d and get(k') is what it was, for every
\* other instruction text k'.
C20_ExactKey ==
    [][\A p \in DOMAIN calls :
          Puts(p) =>
            /\ readCache(TRUE, cacheFile', calls[p].instr) = calls[p].action
            /\ \A k \in Instructions \ {calls[p].instr} :
                  readCache(TRUE, cacheFile', k) = readCache(TRUE, cacheFile, k)]_vars

\* what observe can resolve an instruction to
Descriptors == {"d1", "d2"}

\* C21: on a miss actWithCache calls observe once, completes the write of the
\* resolved descriptor to cache.json and only then calls page.act with it; on
\* a hit it calls page.act with the stored descriptor, without observe and
\* without a write.
C21_ObserveWriteThenAct ==
    LET \* one observe, the descriptor it resolved written to cache.json,
        \* page.act called with it
        MissPathInOrder(p) ==
            /\ calls[p].cached = Undefined
            /\ calls[p].observes = 1
            /\ calls[p].action \in Descriptors
            /\ calls[p].stored = calls[p].action
            /\ calls[p].acted = calls[p].action
        \* a stored descriptor is replayed: no observe, no write
        HitPath(p) ==
            /\ calls[p].cached \in Descriptors
            /\ calls[p].observes = 0
            /\ calls[p].stored = Undefined
            /\ calls[p].acted = calls[p].cached
    IN  \A p \in DOMAIN calls :
            /\ calls[p].pc = "act" => MissPathInOrder(p)
            /\ calls[p].pc = "actCached" => HitPath(p)

\* the write of simpleCache issued by caller p settles in this step
WriteSettles(p) ==
    /\ calls[p].pc = "cacheWrite"
    /\ calls'[p].pc = "overlay"

\* C24: no operation removes or alters the cache entry of another key:
\* simpleCache(k, d) leaves every entry of a key other than k as it was, and
\* every other step of actWithCache, readCache and the cache hit included,
\* leaves the whole store as it was.
C24_OtherEntriesKept ==
    [][LET \* the entry of k, if cache.json holds one, is in the file after
           \* the step with the same descriptor
           EntryKept(k) ==
               HasKey(cacheFile.entries, k) =>
                   /\ HasKey(cacheFile'.entries, k)
                   /\ Get(cacheFile'.entries, k) = Get(cacheFile.entries, k)
       IN  \A k \in Instructions :
               (\A p \in DOMAIN calls : WriteSettles(p) => calls[p].instr # k)
                   => EntryKept(k)]_vars

\* C25: overlapping cache writes are last-write-wins without a lock: once a
\* write of simpleCache has settled, cache.json holds exactly what that
\* writer prepared, its read snapshot with its own entry, whatever another
\* call wrote in between.
C25_LastWriteWins ==
    [][\A p \in DOMAIN calls :
          (WriteSettles(p) /\ calls'[p].stored # Undefined)
              => cacheFile' = FileWith(calls[p].pending)]_vars

\* C28: actWithCache stores and executes only a descriptor that observe
\* returned for the instruction: when observe returns the empty list no
\* entry is written and page.act is not called.
C28_OnlyObservedDescriptor ==
    \A p \in DOMAIN calls :
        calls[p].observes = 1 =>
            /\ calls[p].stored # Undefined
                  => (calls[p].stored \in Descriptors /\ calls[p].stored = calls[p].action)
            /\ calls[p].acted # "none"
                  => (calls[p].acted \in Descriptors /\ calls[p].acted = calls[p].action)

\* C29: a failure of cache.json never fails the command: a read that fails
\* is taken as a miss and goes on to observe; a failed read or write inside
\* simpleCache does not end the call; and page.act is then called with the
\* observed action whether or not the write succeeded.
C29_CacheFailureTolerated ==
    [][LET \* the call of caller p moves in this step from a position in S
           Leaves(p, S) ==
               /\ calls[p].pc \in S
               /\ calls'[p].pc # calls[p].pc
       IN  \A p \in DOMAIN calls :
               /\ (Leaves(p, {"readCache"}) /\ ~calls'[p].readOk)
                     => calls'[p].pc = "observe"
               /\ Leaves(p, {"cacheRead", "cacheWrite"})
                     => (calls'[p].pc \in {"cacheWrite", "overlay"} /\ finished' = finished)
               /\ (Leaves(p, {"overlay"}) /\ calls'[p].pc = "act")
                     => calls'[p].acted = calls[p].action]_vars

\* cache.json holds an entry for the instruction, the read of it failed, the
\* write failed too, and page.act was called with the observed descriptor
C29_Witness ==
    \E p \in DOMAIN calls :
        /\ calls[p].pc = "act"
        /\ HasKey(cacheFile.entries, calls[p].instr)
        /\ ~calls[p].readOk
        /\ calls[p].stored = Undefined
        /\ calls[p].action \in Descriptors
        /\ calls[p].acted = calls[p].action

(***************************************************************************)
(* The fixed-duration program: recordAudio, transcribeAudio,               *)
(* handleVoiceCommand, main (unnamed/part_000)                             *)
(***************************************************************************)
\* bound of the model: the calls of handleVoiceCommand in one run
MaxCycles == 2

\* what the user may type at the prompt
FixedInputs ==
    {<<"\n">>, <<"g","o","\n">>, <<"E","x","i","t","\n">>}

ExitInput == <<"e","x","i","t">>

\* lines 80-98: how transcribeAudio ends for a backend outcome; without a
\* credential the client cannot be constructed, and every error is rethrown
transcribeAudio(apiKey, out) ==
    IF ~apiKey THEN [end |-> "thrown", text |-> << >>]
    ELSE IF out.kind = "error" THEN [end |-> "thrown", text |-> << >>]
    ELSE IF out.text.t = "str" THEN [end |-> "returned", text |-> out.text.s]
    ELSE [end |-> "returned", text |-> << >>]

\* lines 50-68: a recorder just started, its timer armed, its promise pending
NewCycle ==
    [recorder |-> "running", timer |-> "pending", stream |-> "open",
     settled |-> "pending", stt |-> "none", act |-> "none"]

\* lines 32-34 and 69-71: the recorder module could not be loaded
NoRecorder ==
    [recorder |-> "none", timer |-> "none", stream |-> "none",
     settled |-> "rejected", stt |-> "none", act |-> "none"]

\* the call of handleVoiceCommand that main is waiting for
Current == Len(cycles)

\* lines 142-145: the catch clause of handleVoiceCommand, and the return to
\* the prompt (lines 184-186 and 166-175)
CatchAndCleanup_NoUnlink ==
    /\ mainPc' = "prompt"
    /\ UNCHANGED audioFile

\* lines 142-145: the catch clause of handleVoiceCommand, and the return to
\* the prompt (lines 184-186 and 166-175)
CatchAndCleanup ==
    /\ audioFile' = FALSE
    /\ mainPc' = "prompt"

\* lines 171-184: a line of input arrives at the prompt
FixedInput_NoAwait(data, loaded) ==
    /\ mainPc \notin {"closing", "ended"}
    /\ IF toLowerCase(trim(data)) = ExitInput
       THEN /\ mainPc' = "closing"
            /\ UNCHANGED <<cycles, audioFile>>
       ELSE /\ Len(cycles) < MaxCycles
            /\ IF loaded
               THEN /\ cycles' = Append(cycles, NewCycle)
                    /\ audioFile' = TRUE
                    /\ mainPc' = "recording"
               ELSE /\ cycles' = Append(cycles, NoRecorder)
                    /\ CatchAndCleanup
    /\ UNCHANGED <<loopVars, streamVars, cacheVars, funVars>>

\* lines 171-184: a line of input arrives at the prompt
FixedInput(data, loaded) ==
    /\ mainPc = "prompt"
    /\ IF toLowerCase(trim(data)) = ExitInput
       THEN /\ mainPc' = "closing"
            /\ UNCHANGED <<cycles, audioFile>>
       ELSE /\ Len(cycles) < MaxCycles
            /\ IF loaded
               THEN /\ cycles' = Append(cycles, NewCycle)
                    /\ audioFile' = TRUE
                    /\ mainPc' = "recording"
               ELSE /\ cycles' = Append(cycles, NoRecorder)
                    /\ CatchAndCleanup
    /\ UNCHANGED <<loopVars, streamVars, cacheVars, funVars>>

\* lines 66-68: the timer fires and stops the recorder
FixedTimer(c) ==
    /\ c \in DOMAIN cycles
    /\ cycles[c].timer = "pending"
    /\ cycles' = [cycles EXCEPT ![c].timer = "fired",
                               ![c].recorder = "stopped"]
    /\ UNCHANGED <<mainPc, audioFile, loopVars, streamVars, cacheVars, funVars>>

\* lines 36-54: the recorder process ends before its timer (the silence
\* threshold of line 44, or a failure of the device)
FixedRecorderExit(c) ==
    /\ c \in DOMAIN cycles
    /\ cycles[c].recorder = "running"
    /\ cycles' = [cycles EXCEPT ![c].recorder = "stopped"]
    /\ UNCHANGED <<mainPc, audioFile, loopVars, streamVars, cacheVars, funVars>>

\* lines 61-64: the stream of a stopped recorder ends; resolve()
FixedStreamEnd(c) ==
    /\ c \in DOMAIN cycles
    /\ cycles[c].recorder = "stopped"
    /\ cycles[c].stream = "open"
    /\ IF cycles[c].settled = "pending"
       THEN /\ cycles' = [cycles EXCEPT ![c].stream = "ended",
                                       ![c].settled = "resolved"]
            /\ mainPc' = "transcribing"
       ELSE /\ cycles' = [cycles EXCEPT ![c].stream = "ended"]
            /\ UNCHANGED mainPc
    /\ UNCHANGED <<audioFile, loopVars, streamVars, cacheVars, funVars>>

\* lines 56-59: the stream reports an error; reject(err), which
\* handleVoiceCommand catches
FixedStreamError(c) ==
    /\ c \in DOMAIN cycles
    /\ cycles[c].stream = "open"
    /\ IF cycles[c].settled = "pending"
       THEN /\ cycles' = [cycles EXCEPT ![c].stream = "errored",
                                       ![c].settled = "rejected"]
            /\ CatchAndCleanup
       ELSE /\ cycles' = [cycles EXCEPT ![c].stream = "errored"]
            /\ UNCHANGED <<mainPc, audioFile>>
    /\ UNCHANGED <<loopVars, streamVars, cacheVars, funVars>>

\* lines 134-138: transcribeAudio settles
FixedTranscribeDone(out) ==
    /\ mainPc = "transcribing"
    /\ IF transcribeAudio(env.openai, out).end = "thrown"
       THEN /\ cycles' = [cycles EXCEPT ![Current].stt = "threw"]
            /\ CatchAndCleanup
       ELSE /\ cycles' = [cycles EXCEPT ![Current].stt = "returned",
                                       ![Current].act = "pending"]
            /\ mainPc' = "executing"
            /\ UNCHANGED audioFile
    /\ UNCHANGED <<loopVars, streamVars, cacheVars, funVars>>

\* lines 138-141: page.act settles inside executeAction, and the file is
\* unlinked
FixedActDone(ok) ==
    /\ mainPc = "executing"
    /\ cycles' = [cycles EXCEPT ![Current].act = IF ok THEN "done" ELSE "failed"]
    /\ IF executeAction(ok) = "returned"
       THEN /\ audioFile' = FALSE
            /\ mainPc' = "prompt"
       ELSE CatchAndCleanup
    /\ UNCHANGED <<loopVars, streamVars, cacheVars, funVars>>

\* lines 220-225: main has returned and stagehand.close settles
FixedCloseDone ==
    /\ mainPc = "closing"
    /\ mainPc' = "ended"
    /\ UNCHANGED <<cycles, audioFile, loopVars, streamVars, cacheVars, funVars>>

NextFixed ==
    \/ \E data \in FixedInputs : \E loaded \in BOOLEAN : FixedInput(data, loaded)
    \/ \E c \in 1..MaxCycles : FixedTimer(c)
    \/ \E c \in 1..MaxCycles : FixedRecorderExit(c)
    \/ \E c \in 1..MaxCycles : FixedStreamEnd(c)
    \/ \E c \in 1..MaxCycles : FixedStreamError(c)
    \/ \E out \in SttOutcomes : FixedTranscribeDone(out)
    \/ \E ok \in BOOLEAN : FixedActDone(ok)
    \/ FixedCloseDone

InitFixed ==
    /\ env \in [cartesia : {TRUE}, cerebras : {TRUE}, openai : BOOLEAN]
    /\ LoopIdle
    /\ StreamIdle
    /\ CacheIdle
    /\ FixedIdle
    /\ FunIdle

SpecFixed == InitFixed /\ [][NextFixed]_vars

\* C17: the transcript provider does not throw: without its credential, or
\* when the backend fails, it returns the empty transcript.
C17_ProviderNeverThrows ==
    \A c \in DOMAIN cycles : cycles[c].stt # "threw"

\* C30: a transcription failure aborts only the current cycle: page.act is
\* not called for that cycle, command.mp3 is deleted, and main is back at
\* the prompt for the next command.
C30_TranscriptionFailureAbortsCycle ==
    /\ [](\A c \in DOMAIN cycles : cycles[c].stt = "threw" => cycles[c].act = "none")
    /\ [][(mainPc = "transcribing" /\ cycles'[Current].stt = "threw")
             => /\ ~audioFile'
                /\ mainPc' = "prompt"
                /\ Len(cycles') = Len(cycles)]_vars

\* after a cycle whose transcription failed, the next recording is running
C30_Witness ==
    \E c \in DOMAIN cycles :
        /\ cycles[c].stt = "threw"
        /\ cycles[c].act = "none"
        /\ c < Current
        /\ mainPc = "recording"
        /\ cycles[Current].recorder = "running"

\* C31: the calls of handleVoiceCommand never overlap: a line of input is
\* read, and the next call started, only when the call before it has ended
\* (recording rejected, transcription thrown, or page.act settled) and
\* command.mp3 is gone; and the input "exit" starts no call and ends the
\* loop for good.
C31_CyclesInSequence ==
    [][LET \* the call c of handleVoiceCommand has returned
           Returned(c) ==
               \/ cycles[c].settled = "rejected"
               \/ cycles[c].stt = "threw"
               \/ cycles[c].act \in {"done", "failed"}
       IN  /\ Len(cycles') > Len(cycles)
                => /\ mainPc = "prompt"
                   /\ ~audioFile
                   /\ \A c \in DOMAIN cycles : Returned(c)
           /\ (mainPc' = "closing" /\ mainPc # "closing")
                => (mainPc = "prompt" /\ cycles' = cycles)
           /\ mainPc \in {"closing", "ended"}
                => /\ Len(cycles') = Len(cycles)
                   /\ mainPc' \in {"closing", "ended"}]_vars

\* two calls were made one after the other, the first with its action done,
\* and then "exit" ended the program
C31_Witness ==
    /\ mainPc = "ended"
    /\ Len(cycles) = 2
    /\ cycles[1].act = "done"
    /\ cycles[2].settled # "pending"

\* C32: every capture that is started is stopped by its timer, and
\* recordAudio then settles exactly once, resolving when the stream ends or
\* rejecting when the stream reports an error.
C32_StoppedByTimer ==
    \A c \in DOMAIN cycles :
        /\ cycles[c].recorder = "stopped" => cycles[c].timer = "fired"
        /\ cycles[c].settled = "resolved"
              => (cycles[c].timer = "fired" /\ cycles[c].stream = "ended")
        /\ cycles[c].settled = "rejected" => cycles[c].stream \in {"errored", "none"}

(***************************************************************************)
(* classifyCommand taken alone: one call, for every transcript and every   *)
(* outcome of the completions request (index.ts)                           *)
(***************************************************************************)
\* message contents before any wrapping: the bare tokens, JSON with the code
\* member the request schema of lines 195-209 asks for, JSON-like text
\* without it, and free text with and without a token
Bodies ==
    { <<"1">>, <<"2">>, <<"3">>,
      <<"{","\"","c","o","d","e","\"",":","\"","1","\"","}">>,
      <<"{","\"","c","o","d","e","\"",":","\"","2","\"","}">>,
      <<"{"," ","\"","c","o","d","e","\""," ",":"," ","\"","3","\""," ","}">>,
      <<"{","\"","n","\"",":","\"","1","\"",",","\"","c","o","d","e","\"",":","\"","3","\"","}">>,
      <<"{","\"","c","o","d","e","\"",":","3","}">>,
      <<"[","3","]">>,
      <<"{","3","}">>,
      <<"{","\"","c","o","d","e","\"",":">>,
      <<"u","p",":"," ","2">>,
      <<"i","s"," ","3",".">>,
      <<"n","o","n","e">>,
      << >> }

\* what the backend may put around a body: nothing, white space, a fence
\* with or without the word json, and text around the fence
Wrappers ==
    { [pre |-> << >>, post |-> << >>],
      [pre |-> <<" ">>, post |-> <<"\n">>],
      [pre |-> Fence, post |-> Fence],
      [pre |-> Fence \o <<"j","s","o","n","\n">>, post |-> <<"\n">> \o Fence],
      [pre |-> Fence \o <<"J","S","O","N"," ">>, post |-> Fence],
      [pre |-> <<"o","k"," ">> \o Fence, post |-> Fence \o <<" ","e","n","d">>] }

\* every outcome of fetch and response.json() of lines 179-216
Outcomes ==
    {R_NetErr, [kind |-> "badbody"], R_Data([t |-> "undef"]), R_Data([t |-> "nonstr"])}
        \cup {R_Data(Str(w.pre \o b \o w.post)) : w \in Wrappers, b \in Bodies}

\* lines 171-257: one call of classifyCommand; without the credential no
\* request is issued and nothing comes back
ClassifyCall(transcript, resp) ==
    /\ verdict = NoVerdict
    /\ asked' = transcript
    /\ answer' = IF env.cerebras THEN resp ELSE NoResp
    /\ verdict' = classifyCommand(env.cerebras, resp)
    /\ UNCHANGED <<loopVars, streamVars, cacheVars, fixedVars, domVars>>

NextClassify ==
    \E transcript \in Transcripts, resp \in Outcomes : ClassifyCall(transcript, resp)

SpecClassify == Init /\ [][NextClassify]_vars

Tokens == {"1", "2", "3"}

\* the text inside the fence if there is one, without the white space around it
Unwrapped(s) ==
    LET fenced == fenceMatch(s)
    IN  trim(IF fenced.matched THEN fenced.capture ELSE s)

\* the token in the code member of the JSON text t, or "" if t is not that
CodeField(t) ==
    LET parsed == JSONparse(t)
    IN  IF /\ parsed.ok
           /\ parsed.val.t = "obj"
           /\ parsed.val.code.t = "str"
           /\ parsed.val.code.s \in {<<k>> : k \in Tokens}
        THEN parsed.val.code.s[1] ELSE ""

TokensIn(t) == {t[i] : i \in 1..Len(t)} \cap Tokens

\* the call got a message content that is a string
GotText ==
    /\ verdict.requests = 1
    /\ answer.kind = "data"
    /\ answer.content.t = "str"

C23_OneRequestClosedLabel ==
    verdict # NoVerdict =>
        /\ verdict.label \in Tokens
        /\ verdict.requests <= 1
        /\ ~env.cerebras => verdict.requests = 0

\* a content without any token was answered with the default label
C23_Witness ==
    /\ GotText
    /\ TokensIn(answer.content.s) = { }
    /\ Len(answer.content.s) > 0
    /\ verdict = [label |-> "1", requests |-> 1]

(***************************************************************************)
(* pruneDomToVisibleAndStore and restorePrunedDom (index.ts)               *)
(*                                                                         *)
(* The page is the function from each node to the sequence of its          *)
(* children; node 0 is document.body. Both functions run inside one        *)
(* page.evaluate, so each is one step.                                     *)
(***************************************************************************)
\* bound of the model: the nodes under document.body
MaxNodes == 4

\* null, for parentNode and nextSibling
Null == 0 - 1

\* the pages: every ordered tree of n nodes under the body, with any
\* of its leaves text nodes and any of its elements not visible
Pages(n) ==
    LET Parents == {t \in [1..n -> 0..(n - 1)] :
                        \A k \in 1..n : t[k] < k}
        KidsOf(t) == [m \in 0..n |->
                        LET ChildOfM(k) == t[k] = m
                        IN  SelectSeq([k \in 1..n |-> k], ChildOfM)]
        Leaves(t) == {k \in 1..n : \A j \in 1..n : t[j] # k}
        Marked(t) == UNION { { [kids |-> KidsOf(t), hidden |-> h, texts |-> x] :
                                 h \in SUBSET ((1..n) \ x) } :
                             x \in SUBSET Leaves(t) }
    IN  UNION { Marked(t) : t \in Parents }

\* n.parentNode
parentNode(kids, n) ==
    IF \E m \in DOMAIN kids : \E i \in 1..Len(kids[m]) : kids[m][i] = n
    THEN CHOOSE m \in DOMAIN kids : \E i \in 1..Len(kids[m]) : kids[m][i] = n
    ELSE Null

\* n.nextSibling
nextSibling(kids, n) ==
    LET p == parentNode(kids, n)
        i == CHOOSE k \in 1..Len(kids[p]) : kids[p][k] = n
    IN  IF i < Len(kids[p]) THEN kids[p][i + 1] ELSE Null

\* parent.removeChild(n)
removeChild(kids, parent, n) ==
    LET Other(x) == x # n
    IN  [kids EXCEPT ![parent] = SelectSeq(@, Other)]

\* parent.insertBefore(n, ref), and parent.appendChild(n) when ref is Null;
\* a node that has a parent is first removed from it
insertBefore(kids, parent, n, ref) ==
    LET from == IF parentNode(kids, n) = Null THEN kids
                ELSE removeChild(kids, parentNode(kids, n), n)
        at   == IF ref = Null THEN Len(from[parent]) + 1
                ELSE CHOOSE k \in 1..Len(from[parent]) : from[parent][k] = ref
    IN  [from EXCEPT ![parent] =
            SubSeq(@, 1, at - 1) \o <<n>> \o SubSeq(@, at, Len(@))]

\* line 607: querySelectorAll('*') under the nodes of the sequence q: their
\* element descendants and themselves, in document order
RECURSIVE querySelectorAll(_, _, _)
querySelectorAll(kids, texts, q) ==
    IF q = << >> THEN << >>
    ELSE (IF Head(q) \in texts THEN << >> ELSE <<Head(q)>>)
            \o querySelectorAll(kids, texts, kids[Head(q)])
            \o querySelectorAll(kids, texts, Tail(q))

\* lines 610-622: an element that is not connected to the document has no
\* box, so its rectangle is empty; a connected one is visible unless the
\* page made it not so
RECURSIVE isVisible(_, _, _)
isVisible(kids, hidden, el) ==
    IF el = 0 THEN TRUE
    ELSE /\ el \notin hidden
         /\ parentNode(kids, el) # Null
         /\ isVisible(kids, { }, parentNode(kids, el))

\* lines 609-628: the loop over the elements found at line 607; the result
\* is the page and the list of removed elements after it
RECURSIVE pruneLoop(_, _, _, _)
pruneLoop(kids, hidden, all, removed) ==
    IF all = << >> THEN [kids |-> kids, removed |-> removed]
    ELSE LET el == Head(all)
         IN  IF isVisible(kids, hidden, el)
             THEN pruneLoop(kids, hidden, Tail(all), removed)
             ELSE pruneLoop(removeChild(kids, parentNode(kids, el), el),
                            hidden, Tail(all),
                            Append(removed,
                                   [parent      |-> parentNode(kids, el),
                                    element     |-> el,
                                    nextSibling |-> nextSibling(kids, el)]))

\* lines 642-648: the loop over the stored list, first removed first
\* restored
RECURSIVE restoreLoop(_, _)
restoreLoop(kids, removed) ==
    IF removed = << >> THEN kids
    ELSE LET r == Head(removed)
         IN  restoreLoop(
                IF r.nextSibling # Null /\ parentNode(kids, r.nextSibling) = r.parent
                THEN insertBefore(kids, r.parent, r.element, r.nextSibling)
                ELSE insertBefore(kids, r.parent, r.element, Null),
                Tail(removed))

\* lines 602-632
pruneDomToVisibleAndStore ==
    /\ domPc = "start"
    /\ LET all == querySelectorAll(doc, docIn.texts, doc[0])
           out == pruneLoop(doc, docIn.hidden, all, << >>)
       IN  /\ doc' = out.kids
           /\ stash' = out.removed
    /\ domPc' = "pruned"
    /\ UNCHANGED <<docIn, asked, answer, verdict, loopVars, streamVars, cacheVars, fixedVars>>

\* lines 637-653
restorePrunedDom ==
    /\ domPc = "pruned"
    /\ doc' = restoreLoop(doc, stash)
    /\ stash' = << >>
    /\ domPc' = "restored"
    /\ UNCHANGED <<docIn, asked, answer, verdict, loopVars, streamVars, cacheVars, fixedVars>>

NextDom == pruneDomToVisibleAndStore \/ restorePrunedDom

InitDom ==
    /\ env = [cartesia |-> TRUE, cerebras |-> TRUE, openai |-> TRUE]
    /\ LoopIdle
    /\ StreamIdle
    /\ CacheIdle
    /\ FixedIdle
    /\ asked = << >>
    /\ answer = NoResp
    /\ verdict = NoVerdict
    /\ docIn \in Pages(MaxNodes)
    /\ doc = docIn.kids
    /\ stash = << >>
    /\ domPc = "start"

SpecDom == InitDom /\ [][NextDom]_vars

\* C33: pruneDomToVisibleAndStore followed by restorePrunedDom yields the
\* original tree, for every tree and every choice of invisible elements:
\* every node has the children it had, in the order they were in.
C33_PruneRestoreRoundTrip ==
    domPc = "restored" => doc = docIn.kids

====
